---- MODULE Spec2Model ----
(***************************************************************************)
(* The reputation / interaction engine of src/app.py: the like / dislike / *)
(* favorite state machine of posts and comments (post_interaction,         *)
(* comment_interaction), the per-post faction rows (join_faction,          *)
(* choose_faction, the faction gate of comment submission) and the score   *)
(* recomputation UserModel.update_score.                                   *)
(*                                                                         *)
(* In Spec every request handler is one atomic action: the handler's       *)
(* reads, its session changes and its commits happen in one step.          *)
(* CompareSpec adds an observer to the post interactions, ScoreSpec calls  *)
(* update_score on stores of any content, ChooseSpec has choose_faction    *)
(* and the comment submission only, StartSpec has votes, comments and the  *)
(* init_user_scores of an application start.  SerialSpec and               *)
(* InterleavedSpec take the handlers query by query and commit by commit,  *)
(* on rows with ids, one request at a time or several at once.  Scores are *)
(* exact                                                                   *)
(* rationals n/d (Python computes them in binary floating point); a        *)
(* request whose exact score arithmetic leaves the range of ArithLimit is  *)
(* not followed.  Timestamps (interacted_at, created_at) and view_count    *)
(* are not modelled.                                                       *)
(***************************************************************************)
EXTENDS Integers, Sequences, FiniteSets, TLC

\* ------------------------------------------------------------------ bounds
NumUsers == 2
NumPosts == 1
MaxComments == 1
MaxRequests == 4
ArithLimit == 1000000000
NumSessions == 2
MaxBegun == 3

Users == 1 .. NumUsers
Posts == 1 .. NumPosts
CommentIds == 1 .. MaxComments
Sessions == 1 .. NumSessions

\* ------------------------------------------------- constants of update_score
PostBase == 500
PostLikeDamp == 10
PostDislikeDamp == 20
CommentBase == 100
CommentLikeDamp == 5
CommentDislikeDamp == 10

\* --------------------------------------------------- exact rational numbers
\* A number is [n, d] with d > 0 and gcd(n, d) = 1; Overflow (d = 0) is the
\* result of an operation whose integers would exceed ArithLimit.
Abs(x) == IF x < 0 THEN -x ELSE x

RECURSIVE GCD(_, _)
GCD(a, b) == IF b = 0 THEN a ELSE GCD(b, a % b)

Overflow == [n |-> 0, d |-> 0]
IsNum(x) == x.d # 0
Fits(a, b) == a = 0 \/ b = 0 \/ Abs(a) <= ArithLimit \div Abs(b)

Frac(n, d) == LET g == GCD(Abs(n), d) IN [n |-> n \div g, d |-> d \div g]
RInt(k) == [n |-> k, d |-> 1]
Zero == RInt(0)
One == RInt(1)

RNeg(x) == [n |-> -x.n, d |-> x.d]

RAdd(x, y) ==
    IF ~IsNum(x) \/ ~IsNum(y) THEN Overflow
    ELSE LET g == GCD(x.d, y.d)
             yd == y.d \div g
             xd == x.d \div g
         IN IF Fits(x.n, yd) /\ Fits(y.n, xd) /\ Fits(xd, y.d)
            THEN Frac(x.n * yd + y.n * xd, xd * y.d)
            ELSE Overflow

RSub(x, y) == RAdd(x, RNeg(y))

RMul(x, y) ==
    IF ~IsNum(x) \/ ~IsNum(y) THEN Overflow
    ELSE LET g1 == GCD(Abs(x.n), y.d)
             g2 == GCD(Abs(y.n), x.d)
             xn == x.n \div g1
             yn == y.n \div g2
             xd == x.d \div g2
             yd == y.d \div g1
         IN IF Fits(xn, yn) /\ Fits(xd, yd)
            THEN Frac(xn * yn, xd * yd)
            ELSE Overflow

\* x / y for y # 0
RDiv(x, y) ==
    IF ~IsNum(y) THEN Overflow
    ELSE RMul(x, IF y.n > 0 THEN [n |-> y.d, d |-> y.n]
                 ELSE [n |-> -y.d, d |-> -y.n])

RLess(x, y) == RSub(y, x).n > 0

\* max(x, y) of Python
RMax(x, y) ==
    IF ~IsNum(RSub(x, y)) THEN Overflow
    ELSE IF RSub(x, y).n >= 0 THEN x ELSE y

\* `x or 1.0` of Python on a number: 1.0 when x is zero
OrOne(x) == IF IsNum(x) /\ x.n = 0 THEN One ELSE x

\* -------------------------------------------------------------------- state
VARIABLES
    postInteraction,     \* UserPostInteraction rows, by <<user_id, post_id>>
    commentInteraction,  \* UserCommentInteraction rows, by <<user_id, comment_id>>
    postFaction,         \* UserPostFaction rows, by <<user_id, post_id>>
    postModel,           \* PostModel rows: the denormalized counts
    commentModel,        \* CommentModel rows, comment id = position
    score,               \* UserModel.score
    last,                \* the request handled last and its response
    requests,            \* the number of requests handled (begun) so far
    interactionRow,      \* interaction rows, each with its id (step by step)
    factionRow,          \* UserPostFaction rows, each with its id (step by step)
    session              \* the requests in progress (step by step)

vars == <<postInteraction, commentInteraction, postFaction, postModel,
          commentModel, score, last, requests, interactionRow, factionRow,
          session>>

\* what the specifications of whole requests leave alone
stepwise == <<interactionRow, factionRow, session>>

stores == <<postInteraction, commentInteraction, postFaction, postModel,
            commentModel, score>>

\* the columns of the tables
TypeOK ==
    /\ postInteraction \in
          [Users \X Posts ->
              [present : BOOLEAN, liked : BOOLEAN, disliked : BOOLEAN,
               favorited : BOOLEAN]]
    /\ commentInteraction \in
          [Users \X CommentIds ->
              [present : BOOLEAN, liked : BOOLEAN, disliked : BOOLEAN]]
    /\ postFaction \in [Users \X Posts -> {"none", "pro", "anti"}]
    /\ \A p \in Posts :
          /\ postModel[p].like_count \in Int
          /\ postModel[p].dislike_count \in Int
          /\ postModel[p].favorite_count \in Int
    /\ Len(commentModel) <= MaxComments
    /\ \A c \in 1 .. Len(commentModel) :
          /\ commentModel[c].author_id \in Users
          /\ commentModel[c].post_id \in Posts
          /\ commentModel[c].like_count \in Int
          /\ commentModel[c].dislike_count \in Int
    /\ \A u \in Users : IsNum(score[u])
    /\ requests \in 0 .. MaxRequests

\* PostModel.author_id of the posts the model starts with
PostAuthor(p) == ((p - 1) % NumUsers) + 1

\* a pair without a row
NoPostInteraction ==
    [present |-> FALSE, liked |-> FALSE, disliked |-> FALSE, favorited |-> FALSE]
NoCommentInteraction == [present |-> FALSE, liked |-> FALSE, disliked |-> FALSE]

\* UserPostInteraction(user_id, post_id), UserCommentInteraction(user_id,
\* comment_id): a new row, its flags the column defaults
NewPostInteraction ==
    [present |-> TRUE, liked |-> FALSE, disliked |-> FALSE, favorited |-> FALSE]
NewCommentInteraction == [present |-> TRUE, liked |-> FALSE, disliked |-> FALSE]

NewPost == [like_count |-> 0, dislike_count |-> 0, favorite_count |-> 0]

\* The part of the stores a request acts upon, as the handler finds it: the
\* interaction row and the faction row of (user, target), the target's counts.
NoSnapshot ==
    [interaction |-> NoPostInteraction, counts |-> NewPost, row |-> "none"]

Snapshot(op, u, t) ==
    IF op = "comment_interaction"
    THEN [interaction |-> commentInteraction[<<u, t>>],
          counts |-> [like_count |-> commentModel[t].like_count,
                      dislike_count |-> commentModel[t].dislike_count],
          row |-> "none"]
    ELSE IF op = "update_score" THEN NoSnapshot
    ELSE [interaction |-> postInteraction[<<u, t>>],
          counts |-> postModel[t],
          row |-> postFaction[<<u, t>>]]

\* the rows of every table but the scores
Tables ==
    [postInteraction |-> postInteraction,
     commentInteraction |-> commentInteraction,
     postFaction |-> postFaction,
     postModel |-> postModel,
     commentModel |-> commentModel]

\* last: the request handled last (op, user, target, action, faction), its
\* response (status, active, count), what it did (changed: some store
\* differs; rescored, result: the user whose score update_score recomputed
\* and the value it returned) and what it found (before: the tables, found:
\* the part it acts upon).  run counts the identical requests handled in a
\* row up to this one, start is what the first of them found and prevResult
\* the result of the one before this one.  scores is every user's score as
\* the request found it.  noted is what an observer noted down at the end of
\* some earlier request (Observe), and stays as it is afterwards.
NoNote == [tables |-> <<>>, score |-> <<>>]

NoRequest ==
    [op |-> "none", user |-> 0, target |-> 0, action |-> "", faction |-> "",
     status |-> "", active |-> FALSE, count |-> 0, changed |-> FALSE,
     rescored |-> 0, result |-> Zero, prevResult |-> Zero,
     before |-> <<>>, found |-> NoSnapshot, run |-> 0, start |-> NoSnapshot,
     scores |-> <<>>, noted |-> NoNote]

Request(op, u, t, action, faction) ==
    LET again == /\ last.op = op /\ last.user = u /\ last.target = t
                 /\ last.action = action /\ last.faction = faction
    IN [NoRequest EXCEPT
            !.op = op, !.user = u, !.target = t, !.action = action,
            !.faction = faction,
            !.before = Tables,
            !.scores = score,
            !.noted = last.noted,
            !.found = Snapshot(op, u, t),
            !.run = IF again THEN last.run + 1 ELSE 1,
            !.start = IF again THEN last.start ELSE Snapshot(op, u, t),
            !.prevResult = IF again THEN last.result ELSE Zero]

\* Weight as it would be without the damping by the author's own score
WeightUndamped(user_score, self_score, base, damp) ==
    RDiv(user_score, RInt(base))

\* ------------------------------------------------------ UserModel.update_score
\* weight = user_score / (base * (1 + (self.score or 1.0) / damp))
Weight(user_score, self_score, base, damp) ==
    RDiv(user_score,
         RMul(RInt(base), RAdd(One, RDiv(OrOne(self_score), RInt(damp)))))

\* user_score = max(user.score or 1.0, 1.0)
VoterScore(user, sc) == RMax(OrOne(sc[user]), One)

\* PostTerm as it would be if the dislike branch added its weight
PostTermDislikeAdds(interaction, user, self, sc) ==
    IF interaction.liked
    THEN Weight(VoterScore(user, sc), sc[self], PostBase, PostLikeDamp)
    ELSE IF interaction.disliked
    THEN Weight(VoterScore(user, sc), sc[self], PostBase, PostDislikeDamp)
    ELSE Zero

\* one turn of the loop over post_interactions
PostTerm(interaction, user, self, sc) ==
    IF interaction.liked
    THEN Weight(VoterScore(user, sc), sc[self], PostBase, PostLikeDamp)
    ELSE IF interaction.disliked
    THEN RNeg(Weight(VoterScore(user, sc), sc[self], PostBase, PostDislikeDamp))
    ELSE Zero

\* CommentTerm as it would be with the two damping constants exchanged
CommentTermDampsExchanged(interaction, user, self, sc) ==
    IF interaction.liked
    THEN Weight(VoterScore(user, sc), sc[self], CommentBase, CommentDislikeDamp)
    ELSE IF interaction.disliked
    THEN RNeg(Weight(VoterScore(user, sc), sc[self], CommentBase, CommentLikeDamp))
    ELSE Zero

\* one turn of the loop over comment_interactions
CommentTerm(interaction, user, self, sc) ==
    IF interaction.liked
    THEN Weight(VoterScore(user, sc), sc[self], CommentBase, CommentLikeDamp)
    ELSE IF interaction.disliked
    THEN RNeg(Weight(VoterScore(user, sc), sc[self], CommentBase, CommentDislikeDamp))
    ELSE Zero

RECURSIVE AddPostRows(_, _, _, _, _)
AddPostRows(new_score, rows, self, pI, sc) ==
    IF rows = {} THEN new_score
    ELSE LET k == CHOOSE k \in rows : TRUE
         IN AddPostRows(RAdd(new_score, PostTerm(pI[k], k[1], self, sc)),
                        rows \ {k}, self, pI, sc)

RECURSIVE AddCommentRows(_, _, _, _, _)
AddCommentRows(new_score, rows, self, cI, sc) ==
    IF rows = {} THEN new_score
    ELSE LET k == CHOOSE k \in rows : TRUE
         IN AddCommentRows(RAdd(new_score, CommentTerm(cI[k], k[1], self, sc)),
                           rows \ {k}, self, cI, sc)

\* the sum before the floor: new_score after both loops
RawScore(self, pI, cI, cm, sc) ==
    LET post_interactions ==
            {k \in Users \X Posts : pI[k].present /\ PostAuthor(k[2]) = self}
        comment_interactions ==
            {k \in Users \X CommentIds :
                k[2] <= Len(cm) /\ cI[k].present /\ cm[k[2]].author_id = self}
    IN AddCommentRows(AddPostRows(One, post_interactions, self, pI, sc),
                      comment_interactions, self, cI, sc)


\* update_score as it would be without the floor
update_score_unfloored(self, pI, cI, cm, sc) == RawScore(self, pI, cI, cm, sc)

\* self.score = max(new_score, 1.0); return self.score
update_score(self, pI, cI, cm, sc) == RMax(RawScore(self, pI, cI, cm, sc), One)

\* one more request is handled
Tick ==
    /\ requests < MaxRequests
    /\ requests' = requests + 1
    /\ UNCHANGED stepwise


\* PostLike as it would be if a like left the dislike in place
PostLikeKeepsDislike(interaction, post) ==
    IF interaction.liked
    THEN [interaction |-> [interaction EXCEPT !.liked = FALSE],
          post |-> [post EXCEPT !.like_count = @ - 1],
          active |-> FALSE]
    ELSE [interaction |-> [interaction EXCEPT !.liked = TRUE],
          post |-> [post EXCEPT !.like_count = @ + 1],
          active |-> TRUE]

\* --------------------------------------------------------- post_interaction
\* action == 'like'
PostLike(interaction, post) ==
    IF interaction.liked
    THEN [interaction |-> [interaction EXCEPT !.liked = FALSE],
          post |-> [post EXCEPT !.like_count = @ - 1],
          active |-> FALSE]
    ELSE [interaction |-> [interaction EXCEPT !.liked = TRUE, !.disliked = FALSE],
          post |-> [post EXCEPT !.like_count = @ + 1,
                                !.dislike_count =
                                    IF interaction.disliked THEN @ - 1 ELSE @],
          active |-> TRUE]


\* PostDislike as it would be if it left like_count alone
PostDislikeKeepsLikeCount(interaction, post) ==
    IF interaction.disliked
    THEN [interaction |-> [interaction EXCEPT !.disliked = FALSE],
          post |-> [post EXCEPT !.dislike_count = @ - 1],
          active |-> FALSE]
    ELSE [interaction |-> [interaction EXCEPT !.disliked = TRUE, !.liked = FALSE],
          post |-> [post EXCEPT !.dislike_count = @ + 1],
          active |-> TRUE]

\* action == 'dislike'
PostDislike(interaction, post) ==
    IF interaction.disliked
    THEN [interaction |-> [interaction EXCEPT !.disliked = FALSE],
          post |-> [post EXCEPT !.dislike_count = @ - 1],
          active |-> FALSE]
    ELSE [interaction |-> [interaction EXCEPT !.disliked = TRUE, !.liked = FALSE],
          post |-> [post EXCEPT !.dislike_count = @ + 1,
                                !.like_count =
                                    IF interaction.liked THEN @ - 1 ELSE @],
          active |-> TRUE]

\* PostFavorite as it would be if it counted on like_count
PostFavoriteCountsLike(interaction, post) ==
    IF interaction.favorited
    THEN [interaction |-> [interaction EXCEPT !.favorited = FALSE],
          post |-> [post EXCEPT !.like_count = @ - 1],
          active |-> FALSE]
    ELSE [interaction |-> [interaction EXCEPT !.favorited = TRUE],
          post |-> [post EXCEPT !.like_count = @ + 1],
          active |-> TRUE]

\* action == 'favorite'
PostFavorite(interaction, post) ==
    IF interaction.favorited
    THEN [interaction |-> [interaction EXCEPT !.favorited = FALSE],
          post |-> [post EXCEPT !.favorite_count = @ - 1],
          active |-> FALSE]
    ELSE [interaction |-> [interaction EXCEPT !.favorited = TRUE],
          post |-> [post EXCEPT !.favorite_count = @ + 1],
          active |-> TRUE]


\* JoinFaction as it would be if the same faction did not leave
JoinFactionNoLeave(row, faction) == [row |-> faction, active |-> TRUE]

\* action == 'join_faction' with a valid faction: the UserPostFaction row of
\* the pair ("none": no row) after the toggle, and the reported active
JoinFaction(row, faction) ==
    IF row # "none"
    THEN IF row = faction
         THEN [row |-> "none", active |-> FALSE]
         ELSE [row |-> faction, active |-> TRUE]
    ELSE [row |-> faction, active |-> TRUE]


\* PostStatus as it would be without the two error returns
PostStatusUnchecked(action, faction) == "ok"

\* the outcome of the request: an error return leaves before the commit
PostStatus(action, faction) ==
    IF action \in {"like", "dislike", "favorite"} THEN "ok"
    ELSE IF action = "join_faction"
    THEN IF faction \in {"pro", "anti"} THEN "ok" ELSE "invalid_faction"
    ELSE "invalid_action"

\* PostCount as it would be if it always reported like_count
PostCountOfLikes(post, action) == post.like_count

\* getattr(post, f'{action}_count', 0)
PostCount(post, action) ==
    CASE action = "like" -> post.like_count
      [] action = "dislike" -> post.dislike_count
      [] action = "favorite" -> post.favorite_count
      [] OTHER -> 0

\* PostRescores as it would be if every request recomputed the score
PostRescoresAlways(action, was_liked, was_disliked, interaction) == TRUE

\* PostRescores as it would be if only a newly set flag recomputed the score
PostRescoresOnSet(action, was_liked, was_disliked, interaction) ==
    /\ action \in {"like", "dislike"}
    /\ \/ ~was_liked /\ interaction.liked
       \/ ~was_disliked /\ interaction.disliked

\* the like / dislike state changed: the author's score is recomputed
PostRescores(action, was_liked, was_disliked, interaction) ==
    /\ action \in {"like", "dislike"}
    /\ (was_liked # interaction.liked \/ was_disliked # interaction.disliked)

PostInteraction(u, post_id, action, faction) ==
    LET found == postInteraction[<<u, post_id>>]
        interaction == IF found.present THEN found ELSE NewPostInteraction
        post == postModel[post_id]
        was_liked == interaction.liked
        was_disliked == interaction.disliked
        status == PostStatus(action, faction)
        r == CASE action = "like" -> PostLike(interaction, post)
               [] action = "dislike" -> PostDislike(interaction, post)
               [] action = "favorite" -> PostFavorite(interaction, post)
               [] OTHER -> [interaction |-> interaction, post |-> post,
                            active |-> FALSE]
        j == IF action = "join_faction" /\ status = "ok"
             THEN JoinFaction(postFaction[<<u, post_id>>], faction)
             ELSE [row |-> postFaction[<<u, post_id>>], active |-> r.active]
        pI == [postInteraction EXCEPT ![<<u, post_id>>] = r.interaction]
        pM == [postModel EXCEPT ![post_id] = r.post]
        post_author == PostAuthor(post_id)
        rescores == PostRescores(action, was_liked, was_disliked, r.interaction)
        new_score == IF rescores
                     THEN update_score(post_author, pI, commentInteraction,
                                       commentModel, score)
                     ELSE score[post_author]
        request == [Request("post_interaction", u, post_id, action, faction)
                       EXCEPT !.status = status]
    IN IF status # "ok"
       THEN /\ Tick
            /\ UNCHANGED stores
            /\ last' = request
       ELSE /\ Tick
            /\ IsNum(new_score)
            /\ postInteraction' = pI
            /\ postModel' = pM
            /\ postFaction' = [postFaction EXCEPT ![<<u, post_id>>] = j.row]
            /\ score' = [score EXCEPT ![post_author] = new_score]
            /\ UNCHANGED <<commentInteraction, commentModel>>
            /\ last' = [request EXCEPT
                            !.active = j.active,
                            !.count = PostCount(r.post, action),
                            !.changed = (stores' # stores),
                            !.rescored = IF rescores THEN post_author ELSE 0,
                            !.result = IF rescores THEN new_score ELSE Zero]


\* CommentLike as it would be if the un-like kept the count
CommentUnlikeKeepsCount(interaction, comment) ==
    IF interaction.liked
    THEN [interaction |-> [interaction EXCEPT !.liked = FALSE],
          comment |-> comment,
          active |-> FALSE]
    ELSE [interaction |-> [interaction EXCEPT !.liked = TRUE, !.disliked = FALSE],
          comment |-> [comment EXCEPT !.like_count = @ + 1,
                                      !.dislike_count =
                                          IF interaction.disliked THEN @ - 1 ELSE @],
          active |-> TRUE]

\* ------------------------------------------------------ comment_interaction
\* action == 'like'
CommentLike(interaction, comment) ==
    IF interaction.liked
    THEN [interaction |-> [interaction EXCEPT !.liked = FALSE],
          comment |-> [comment EXCEPT !.like_count = @ - 1],
          active |-> FALSE]
    ELSE [interaction |-> [interaction EXCEPT !.liked = TRUE, !.disliked = FALSE],
          comment |-> [comment EXCEPT !.like_count = @ + 1,
                                      !.dislike_count =
                                          IF interaction.disliked THEN @ - 1 ELSE @],
          active |-> TRUE]


\* CommentDislike as it would be if it left the like in place
CommentDislikeKeepsLike(interaction, comment) ==
    IF interaction.disliked
    THEN [interaction |-> [interaction EXCEPT !.disliked = FALSE],
          comment |-> [comment EXCEPT !.dislike_count = @ - 1],
          active |-> FALSE]
    ELSE [interaction |-> [interaction EXCEPT !.disliked = TRUE],
          comment |-> [comment EXCEPT !.dislike_count = @ + 1],
          active |-> TRUE]

\* action == 'dislike'
CommentDislike(interaction, comment) ==
    IF interaction.disliked
    THEN [interaction |-> [interaction EXCEPT !.disliked = FALSE],
          comment |-> [comment EXCEPT !.dislike_count = @ - 1],
          active |-> FALSE]
    ELSE [interaction |-> [interaction EXCEPT !.disliked = TRUE, !.liked = FALSE],
          comment |-> [comment EXCEPT !.dislike_count = @ + 1,
                                      !.like_count =
                                          IF interaction.liked THEN @ - 1 ELSE @],
          active |-> TRUE]

\* getattr(comment, f'{action}_count')
CommentCount(comment, action) ==
    CASE action = "like" -> comment.like_count
      [] action = "dislike" -> comment.dislike_count
      [] OTHER -> 0

\* CommentRescores as it would be if no request recomputed the score
CommentRescoresNever(action, was_liked, was_disliked, interaction) == FALSE

CommentRescores(action, was_liked, was_disliked, interaction) ==
    /\ action \in {"like", "dislike"}
    /\ (was_liked # interaction.liked \/ was_disliked # interaction.disliked)

\* Any other action takes neither branch: the row is committed as it is and
\* building the response fails on the unassigned `active`.
CommentInteraction(u, comment_id, action) ==
    LET found == commentInteraction[<<u, comment_id>>]
        interaction == IF found.present THEN found ELSE NewCommentInteraction
        comment == commentModel[comment_id]
        was_liked == interaction.liked
        was_disliked == interaction.disliked
        r == CASE action = "like" -> CommentLike(interaction, comment)
               [] action = "dislike" -> CommentDislike(interaction, comment)
               [] OTHER -> [interaction |-> interaction, comment |-> comment,
                            active |-> FALSE]
        cI == [commentInteraction EXCEPT ![<<u, comment_id>>] = r.interaction]
        cM == [commentModel EXCEPT ![comment_id] = r.comment]
        comment_author == comment.author_id
        rescores == CommentRescores(action, was_liked, was_disliked, r.interaction)
        new_score == IF rescores
                     THEN update_score(comment_author, postInteraction, cI, cM, score)
                     ELSE score[comment_author]
    IN /\ Tick
       /\ comment_id <= Len(commentModel)
       /\ IsNum(new_score)
       /\ commentInteraction' = cI
       /\ commentModel' = cM
       /\ score' = [score EXCEPT ![comment_author] = new_score]
       /\ UNCHANGED <<postInteraction, postModel, postFaction>>
       /\ last' = [Request("comment_interaction", u, comment_id, action, "")
                   EXCEPT
                       !.status = IF action \in {"like", "dislike"}
                                  THEN "ok" ELSE "unhandled_error",
                       !.active = r.active,
                       !.count = CommentCount(r.comment, action),
                       !.changed = (stores' # stores),
                       !.rescored = IF rescores THEN comment_author ELSE 0,
                       !.result = IF rescores THEN new_score ELSE Zero]


\* ChooseStatus as it would be if only the same faction were refused
ChooseStatusSameOnly(existing_faction, faction) ==
    IF faction \notin {"pro", "anti"} THEN "invalid_faction"
    ELSE IF existing_faction = faction THEN "already_chosen"
    ELSE "ok"

\* ChooseStatus as it would be without the lookup of an existing row
ChooseStatusUnchecked(existing_faction, faction) ==
    IF faction \notin {"pro", "anti"} THEN "invalid_faction" ELSE "ok"

\* ----------------------------------------------------------- choose_faction
ChooseStatus(existing_faction, faction) ==
    IF faction \notin {"pro", "anti"} THEN "invalid_faction"
    ELSE IF existing_faction # "none" THEN "already_chosen"
    ELSE "ok"

ChooseFaction(u, post_id, faction) ==
    LET existing_faction == postFaction[<<u, post_id>>]
        status == ChooseStatus(existing_faction, faction)
    IN /\ Tick
       /\ postFaction' = IF status = "ok"
                         THEN [postFaction EXCEPT ![<<u, post_id>>] = faction]
                         ELSE postFaction
       /\ UNCHANGED <<postInteraction, commentInteraction, postModel,
                      commentModel, score>>
       /\ last' = [Request("choose_faction", u, post_id, "", faction) EXCEPT
                       !.status = status, !.changed = (stores' # stores)]


\* SubmitStatus as it would be if the query left out the faction
SubmitStatusAnyRow(user_faction, content, faction) ==
    IF content = "" THEN "empty_content"
    ELSE IF faction \in {"pro", "anti"} /\ user_faction = "none"
    THEN "not_in_faction"
    ELSE "ok"

\* -------------------------------------------- post: the comment submission
\* content is "" when the form carries no text
SubmitStatus(user_faction, content, faction) ==
    IF content = "" THEN "empty_content"
    ELSE IF faction \in {"pro", "anti"} /\ user_faction # faction
    THEN "not_in_faction"
    ELSE "ok"

NewComment(u, post_id, faction) ==
    [author_id |-> u, post_id |-> post_id, faction |-> faction,
     like_count |-> 0, dislike_count |-> 0]

SubmitComment(u, post_id, content, faction) ==
    LET status == SubmitStatus(postFaction[<<u, post_id>>], content, faction)
    IN /\ Tick
       /\ status = "ok" => Len(commentModel) < MaxComments
       /\ commentModel' = IF status = "ok"
                          THEN Append(commentModel, NewComment(u, post_id, faction))
                          ELSE commentModel
       /\ UNCHANGED <<postInteraction, commentInteraction, postFaction,
                      postModel, score>>
       /\ last' = [Request("post", u, post_id, content, faction) EXCEPT
                       !.status = status, !.changed = (stores' # stores)]

\* UpdateScore as it would be if the recomputation went on to every voter
UpdateScoreCascading(u) ==
    LET new_score == update_score(u, postInteraction, commentInteraction,
                                  commentModel, score)
        own == [score EXCEPT ![u] = new_score]
        all == [v \in Users |->
                   IF v = u THEN new_score
                   ELSE update_score(v, postInteraction, commentInteraction,
                                     commentModel, own)]
    IN /\ Tick
       /\ \A v \in Users : IsNum(all[v])
       /\ score' = all
       /\ UNCHANGED <<postInteraction, commentInteraction, postFaction,
                      postModel, commentModel>>
       /\ last' = [Request("update_score", u, 0, "", "") EXCEPT
                       !.status = "ok", !.changed = (stores' # stores),
                       !.rescored = u, !.result = new_score]

\* --------------------------------------------- a call of user.update_score()
UpdateScore(u) ==
    LET new_score == update_score(u, postInteraction, commentInteraction,
                                  commentModel, score)
    IN /\ Tick
       /\ IsNum(new_score)
       /\ score' = [score EXCEPT ![u] = new_score]
       /\ UNCHANGED <<postInteraction, commentInteraction, postFaction,
                      postModel, commentModel>>
       /\ last' = [Request("update_score", u, 0, "", "") EXCEPT
                       !.status = "ok", !.changed = (stores' # stores),
                       !.rescored = u, !.result = new_score]

\* ---------------------------------------- rows with ids, requests in progress
\* no row: what .first() returns when the query matches nothing
NoInteractionRow ==
    [id |-> 0, kind |-> "", user_id |-> 0, target |-> 0,
     liked |-> FALSE, disliked |-> FALSE, favorited |-> FALSE]
NoFactionRow == [id |-> 0, user_id |-> 0, post_id |-> 0, faction |-> "none"]

\* UserPostInteraction(user_id, post_id) (kind "post") or
\* UserCommentInteraction(user_id, comment_id) (kind "comment"), not yet flushed
NewInteractionRow(kind, u, t) ==
    [id |-> 0, kind |-> kind, user_id |-> u, target |-> t,
     liked |-> FALSE, disliked |-> FALSE, favorited |-> FALSE]

\* a session that handles no request
Idle ==
    [pc |-> "idle", op |-> "", user |-> 0, target |-> 0, action |-> "",
     faction |-> "", seen |-> NoInteractionRow, counts |-> NewPost,
     seenFaction |-> NoFactionRow, row |-> 0,
     was_liked |-> FALSE, was_disliked |-> FALSE]

NoSessions ==
    /\ interactionRow = {}
    /\ factionRow = {}
    /\ session = [p \in Sessions |-> Idle]

\* ------------------------------------------------------------ specification
PostActions == {"like", "dislike", "favorite", "share"}
CommentActions == {"like", "dislike", "share"}
FactionInputs == {"pro", "anti", "both"}
CommentFactionInputs == {"pro", "anti", "neutral", "both"}
Contents == {"", "text"}

Init ==
    /\ postInteraction = [k \in Users \X Posts |-> NoPostInteraction]
    /\ commentInteraction = [k \in Users \X CommentIds |-> NoCommentInteraction]
    /\ postFaction = [k \in Users \X Posts |-> "none"]
    /\ postModel = [p \in Posts |-> NewPost]
    /\ commentModel = <<>>
    /\ score = [u \in Users |-> One]
    /\ last = NoRequest
    /\ requests = 0
    /\ NoSessions

\* a request arrives and its handler runs
HandleRequest ==
    \/ \E u \in Users, p \in Posts, a \in PostActions : PostInteraction(u, p, a, "")
    \/ \E u \in Users, p \in Posts, f \in FactionInputs :
          PostInteraction(u, p, "join_faction", f)
    \/ \E u \in Users, c \in CommentIds, a \in CommentActions :
          CommentInteraction(u, c, a)
    \/ \E u \in Users, p \in Posts, f \in FactionInputs : ChooseFaction(u, p, f)
    \/ \E u \in Users, p \in Posts, t \in Contents, f \in CommentFactionInputs :
          SubmitComment(u, p, t, f)

Next ==
    \/ HandleRequest
    \/ \E u \in Users : UpdateScore(u)

Spec == Init /\ [][Next]_vars

\* --------------------------- two request sequences compared (CompareSpec)
\* An observer notes the tables and the scores as they are at the end of some
\* request, once; the requests go on.  The noted state and every later state
\* are both ends of request sequences from the same initial state.  The
\* requests are the post interactions.
Observe ==
    /\ last.op # "none"
    /\ last.noted = NoNote
    /\ last' = [last EXCEPT !.noted = [tables |-> Tables, score |-> score]]
    /\ UNCHANGED <<stores, requests, stepwise>>

CompareNext ==
    \/ \E u \in Users, p \in Posts, a \in PostActions : PostInteraction(u, p, a, "")
    \/ Observe

CompareSpec == Init /\ [][CompareNext]_vars

\* ------------------------------------ update_score on its own (ScoreSpec)
\* update_score as a function of what it reads: the stores start with any
\* scores of ScoreValues, any votes on the posts and on the comments (a
\* comment of any author under every comment id), the counts as the votes
\* make them; the only step is a call of update_score.
ScoreValues == {One, Frac(3, 2), RInt(2), RInt(10)}

PostVotes ==
    {NoPostInteraction, NewPostInteraction,
     [NewPostInteraction EXCEPT !.liked = TRUE],
     [NewPostInteraction EXCEPT !.disliked = TRUE]}

CommentVotes ==
    {NoCommentInteraction, NewCommentInteraction,
     [NewCommentInteraction EXCEPT !.liked = TRUE],
     [NewCommentInteraction EXCEPT !.disliked = TRUE]}

ScoreInit ==
    /\ score \in [Users -> ScoreValues]
    /\ postInteraction \in [Users \X Posts -> PostVotes]
    /\ commentInteraction \in [Users \X CommentIds -> CommentVotes]
    /\ postFaction = [k \in Users \X Posts |-> "none"]
    /\ postModel =
          [p \in Posts |->
              [like_count |->
                   Cardinality({u \in Users : postInteraction[<<u, p>>].liked}),
               dislike_count |->
                   Cardinality({u \in Users : postInteraction[<<u, p>>].disliked}),
               favorite_count |-> 0]]
    /\ \E author \in [CommentIds -> Users] :
          commentModel =
              [c \in CommentIds |->
                  [author_id |-> author[c], post_id |-> 1, faction |-> "neutral",
                   like_count |->
                       Cardinality({u \in Users : commentInteraction[<<u, c>>].liked}),
                   dislike_count |->
                       Cardinality({u \in Users :
                                       commentInteraction[<<u, c>>].disliked})]]
    /\ last = NoRequest
    /\ requests = 0
    /\ NoSessions

ScoreNext == \E u \in Users : UpdateScore(u)

ScoreSpec == ScoreInit /\ [][ScoreNext]_vars

\* ------------- choose_faction and comment submission only (ChooseSpec)
ChooseNext ==
    \/ \E u \in Users, p \in Posts, f \in FactionInputs : ChooseFaction(u, p, f)
    \/ \E u \in Users, p \in Posts, t \in Contents, f \in CommentFactionInputs :
          SubmitComment(u, p, t, f)

ChooseSpec == Init /\ [][ChooseNext]_vars

\* ------------------------- init_user_scores at application start (StartSpec)
\* users = UserModel.query.all(): the users in the order the query returns
\* them, which no ORDER BY fixes
Orders ==
    {users \in [1 .. NumUsers -> Users] :
        \A u \in Users : \E i \in 1 .. NumUsers : users[i] = u}

\* for user in users: user.update_score() -- each call reads the scores as the
\* calls before it have left them
RECURSIVE init_user_scores(_, _)
init_user_scores(users, sc) ==
    IF users = <<>> THEN sc
    ELSE LET user == Head(users)
         IN init_user_scores(
                Tail(users),
                [sc EXCEPT ![user] =
                    update_score(user, postInteraction, commentInteraction,
                                 commentModel, sc)])

\* the application starts: init_database() calls init_user_scores()
InitUserScores(users) ==
    LET scores == init_user_scores(users, score)
    IN /\ Tick
       /\ \A u \in Users : IsNum(scores[u])
       /\ score' = scores
       /\ UNCHANGED <<postInteraction, commentInteraction, postFaction,
                      postModel, commentModel>>
       /\ last' = [NoRequest EXCEPT
                       !.op = "init_user_scores", !.status = "ok",
                       !.before = Tables, !.scores = score,
                       !.noted = last.noted,
                       !.changed = (score' # score),
                       !.run = IF last.op = "init_user_scores"
                               THEN last.run + 1 ELSE 1]

\* the application runs, stops and starts again: votes and comments, and
\* init_user_scores at every start
StartNext ==
    \/ \E u \in Users, p \in Posts, a \in {"like", "dislike"} :
          PostInteraction(u, p, a, "")
    \/ \E u \in Users, c \in CommentIds, a \in {"like", "dislike"} :
          CommentInteraction(u, c, a)
    \/ \E u \in Users, p \in Posts : SubmitComment(u, p, "text", "neutral")
    \/ \E users \in Orders : InitUserScores(users)

StartSpec == Init /\ [][StartNext]_vars

\* -------------- the handlers step by step (SerialSpec, InterleavedSpec)
\* A request is handled in a session of its own, in steps: each query reads
\* the committed rows as they are at its step, and the flush with its commit
\* writes in one step, so the steps of the requests in progress interleave
\* between a query and the commit and between the two commits of a vote.  The
\* interaction and faction rows are sets of rows with ids (interactionRow,
\* factionRow); posts, comments and scores are postModel, commentModel, score.
\* The stores start with one post and one neutral comment on it.

\* the id a new row gets (autoincrement)
NewId(rows) ==
    IF rows = {} THEN 1
    ELSE 1 + CHOOSE m \in {r.id : r \in rows} : \A r \in rows : r.id <= m

\* FindInteraction as it would be if the query never matched
FindInteractionNothing(kind, u, t) == {}

\* filter_by(user_id=..., post_id=...) / filter_by(user_id=..., comment_id=...)
FindInteraction(kind, u, t) ==
    {r \in interactionRow : r.kind = kind /\ r.user_id = u /\ r.target = t}

FindFaction(u, post_id) ==
    {r \in factionRow : r.user_id = u /\ r.post_id = post_id}

\* .first(): one of the rows found, or none
First(found, none) == IF found = {} THEN {none} ELSE found

\* UniqueUserPost as it would be without the constraint
UniqueUserPostOff(table, u, post_id) == TRUE

\* UniqueConstraint('user_id', 'post_id'): an insert for (u, post_id) is
\* accepted only when the table has no row of the pair
UniqueUserPost(table, u, post_id) ==
    \A r \in table : ~(r.user_id = u /\ r.post_id = post_id)

Kind(s) == IF s.op = "comment_interaction" THEN "comment" ELSE "post"

TargetAuthor(kind, t) ==
    IF kind = "comment" THEN commentModel[t].author_id ELSE PostAuthor(t)

\* the flush of a loaded row: UPDATE ... SET only the attributes that were
\* changed since they were loaded, WHERE id = the row's id
FlushFlags(current, loaded, changed) ==
    [current EXCEPT
        !.liked = IF changed.liked # loaded.liked THEN changed.liked ELSE @,
        !.disliked = IF changed.disliked # loaded.disliked
                     THEN changed.disliked ELSE @,
        !.favorited = IF changed.favorited # loaded.favorited
                      THEN changed.favorited ELSE @]

FlushPostCounts(current, loaded, changed) ==
    [current EXCEPT
        !.like_count = IF changed.like_count # loaded.like_count
                       THEN changed.like_count ELSE @,
        !.dislike_count = IF changed.dislike_count # loaded.dislike_count
                          THEN changed.dislike_count ELSE @,
        !.favorite_count = IF changed.favorite_count # loaded.favorite_count
                           THEN changed.favorite_count ELSE @]

FlushCommentCounts(current, loaded, changed) ==
    [current EXCEPT
        !.like_count = IF changed.like_count # loaded.like_count
                       THEN changed.like_count ELSE @,
        !.dislike_count = IF changed.dislike_count # loaded.dislike_count
                          THEN changed.dislike_count ELSE @]

\* update_score over the rows: the loop over the votes on self's posts, then
\* the loop over the votes on self's comments, then the floor
RECURSIVE AddRows(_, _, _, _)
AddRows(new_score, rows, self, sc) ==
    IF rows = {} THEN new_score
    ELSE LET r == CHOOSE r \in rows : TRUE
         IN AddRows(RAdd(new_score,
                         IF r.kind = "post"
                         THEN PostTerm(r, r.user_id, self, sc)
                         ELSE CommentTerm(r, r.user_id, self, sc)),
                    rows \ {r}, self, sc)

RowScore(self) ==
    LET post_interactions ==
            {r \in interactionRow :
                r.kind = "post" /\ PostAuthor(r.target) = self}
        comment_interactions ==
            {r \in interactionRow :
                r.kind = "comment" /\ commentModel[r.target].author_id = self}
    IN RMax(AddRows(AddRows(One, post_interactions, self, score),
                    comment_interactions, self, score),
            One)

\* the requests that arrive
StepRequests ==
    [op : {"post_interaction"}, user : Users, target : Posts,
     action : PostActions, faction : {""}]
    \cup [op : {"post_interaction"}, user : Users, target : Posts,
          action : {"join_faction"}, faction : FactionInputs]
    \cup [op : {"comment_interaction"}, user : Users,
          target : 1 .. Len(commentModel), action : CommentActions,
          faction : {""}]
    \cup [op : {"choose_faction"}, user : Users, target : Posts,
          action : {""}, faction : FactionInputs]

\* a request arrives at an idle session
Begin(p, r) ==
    /\ session[p].pc = "idle"
    /\ requests < MaxBegun
    /\ requests' = requests + 1
    /\ session' = [session EXCEPT ![p] =
                      [Idle EXCEPT
                          !.pc = IF r.op = "choose_faction" THEN "lookup"
                                 ELSE "load",
                          !.op = r.op, !.user = r.user, !.target = r.target,
                          !.action = r.action, !.faction = r.faction]]
    /\ UNCHANGED <<stores, last, interactionRow, factionRow>>

\* a request arrives while no other is in progress
BeginAlone(p, r) ==
    /\ \A q \in Sessions : session[q].pc = "idle"
    /\ Begin(p, r)

\* post_interaction, comment_interaction: the target and the interaction row
\* are read; an invalid action or faction of post_interaction returns 400
\* before anything is committed
Load(p) ==
    LET s == session[p]
        counts == IF Kind(s) = "comment" THEN commentModel[s.target]
                  ELSE postModel[s.target]
        rejected == s.op = "post_interaction"
                    /\ PostStatus(s.action, s.faction) # "ok"
    IN /\ s.pc = "load"
       /\ \E r \in First(FindInteraction(Kind(s), s.user, s.target),
                         NoInteractionRow) :
             session' = [session EXCEPT ![p] =
                            IF rejected THEN Idle
                            ELSE [s EXCEPT
                                     !.pc = IF s.action = "join_faction"
                                            THEN "lookup" ELSE "commit",
                                     !.seen = r, !.counts = counts]]
       /\ UNCHANGED <<stores, last, requests, interactionRow, factionRow>>

\* join_faction, choose_faction: the faction row of (user, post) is read;
\* choose_faction returns when the faction is invalid or a row is found
Lookup(p) ==
    LET s == session[p]
    IN /\ s.pc = "lookup"
       /\ \E f \in First(FindFaction(s.user, s.target), NoFactionRow) :
             session' = [session EXCEPT ![p] =
                            IF s.op = "choose_faction"
                               /\ ChooseStatus(f.faction, s.faction) # "ok"
                            THEN Idle
                            ELSE [s EXCEPT !.pc = "commit", !.seenFaction = f]]
       /\ UNCHANGED <<stores, last, requests, interactionRow, factionRow>>

\* like, dislike, favorite on a post; any action on a comment: the branch of
\* the action, then the flush and the first commit
CommitVote(p) ==
    LET s == session[p]
        kind == Kind(s)
        interaction == IF s.seen = NoInteractionRow
                       THEN NewInteractionRow(kind, s.user, s.target)
                       ELSE s.seen
        r == IF kind = "post"
             THEN CASE s.action = "like" -> PostLike(interaction, s.counts)
                    [] s.action = "dislike" -> PostDislike(interaction, s.counts)
                    [] OTHER -> PostFavorite(interaction, s.counts)
             ELSE LET c == CASE s.action = "like" ->
                                   CommentLike(interaction, s.counts)
                             [] s.action = "dislike" ->
                                   CommentDislike(interaction, s.counts)
                             [] OTHER -> [interaction |-> interaction,
                                          comment |-> s.counts,
                                          active |-> FALSE]
                  IN [interaction |-> c.interaction, post |-> c.comment,
                      active |-> c.active]
        id == IF s.seen = NoInteractionRow THEN NewId(interactionRow)
              ELSE s.seen.id
    IN /\ s.pc = "commit"
       /\ s.action # "join_faction" /\ s.op # "choose_faction"
       /\ interactionRow' =
             IF s.seen = NoInteractionRow
             THEN interactionRow \cup {[r.interaction EXCEPT !.id = id]}
             ELSE {IF x.id = id THEN FlushFlags(x, s.seen, r.interaction) ELSE x :
                      x \in interactionRow}
       /\ IF kind = "post"
          THEN /\ postModel' =
                     [postModel EXCEPT ![s.target] =
                         FlushPostCounts(@, s.counts, r.post)]
               /\ UNCHANGED commentModel
          ELSE /\ commentModel' =
                     [commentModel EXCEPT ![s.target] =
                         FlushCommentCounts(@, s.counts, r.post)]
               /\ UNCHANGED postModel
       /\ session' = [session EXCEPT ![p] =
                         IF s.action \in {"like", "dislike"}
                         THEN [s EXCEPT !.pc = "rescore", !.row = id,
                                        !.was_liked = interaction.liked,
                                        !.was_disliked = interaction.disliked]
                         ELSE Idle]
       /\ UNCHANGED <<postInteraction, commentInteraction, postFaction, score,
                      last, requests, factionRow>>

\* join_faction: the toggle, then the flush and the commit; an insert the
\* constraint refuses, or an update of a row that is gone, fails the flush and
\* nothing is committed
CommitJoin(p) ==
    LET s == session[p]
        j == JoinFaction(s.seenFaction.faction, s.faction)
        inserts == s.seenFaction = NoFactionRow
        deletes == ~inserts /\ j.row = "none"
        failed == \/ inserts /\ ~UniqueUserPost(factionRow, s.user, s.target)
                  \/ /\ ~inserts /\ ~deletes
                     /\ \A x \in factionRow : x.id # s.seenFaction.id
    IN /\ s.pc = "commit"
       /\ s.action = "join_faction"
       /\ factionRow' =
             IF failed THEN factionRow
             ELSE IF inserts
             THEN factionRow \cup {[id |-> NewId(factionRow), user_id |-> s.user,
                                    post_id |-> s.target, faction |-> s.faction]}
             ELSE IF deletes
             THEN {x \in factionRow : x.id # s.seenFaction.id}
             ELSE {IF x.id = s.seenFaction.id
                   THEN [x EXCEPT !.faction = s.faction] ELSE x :
                      x \in factionRow}
       /\ interactionRow' =
             IF failed \/ s.seen # NoInteractionRow THEN interactionRow
             ELSE interactionRow \cup
                     {[NewInteractionRow("post", s.user, s.target) EXCEPT
                          !.id = NewId(interactionRow)]}
       /\ session' = [session EXCEPT ![p] = Idle]
       /\ UNCHANGED <<stores, last, requests>>

\* choose_faction: the insert and the commit
CommitChoose(p) ==
    LET s == session[p]
    IN /\ s.pc = "commit"
       /\ s.op = "choose_faction"
       /\ factionRow' =
             IF UniqueUserPost(factionRow, s.user, s.target)
             THEN factionRow \cup {[id |-> NewId(factionRow), user_id |-> s.user,
                                    post_id |-> s.target, faction |-> s.faction]}
             ELSE factionRow
       /\ session' = [session EXCEPT ![p] = Idle]
       /\ UNCHANGED <<stores, last, requests, interactionRow>>

\* after the first commit of a like or dislike: the row is read again, and if
\* its flags differ from was_liked, was_disliked the author's score is
\* recomputed and committed
Rescore(p) ==
    LET s == session[p]
        interaction == CHOOSE x \in interactionRow : x.id = s.row
        author == TargetAuthor(Kind(s), s.target)
        rescores == IF Kind(s) = "post"
                    THEN PostRescores(s.action, s.was_liked, s.was_disliked,
                                      interaction)
                    ELSE CommentRescores(s.action, s.was_liked, s.was_disliked,
                                         interaction)
        new_score == IF rescores THEN RowScore(author) ELSE score[author]
    IN /\ s.pc = "rescore"
       /\ IsNum(new_score)
       /\ score' = [score EXCEPT ![author] = new_score]
       /\ session' = [session EXCEPT ![p] = Idle]
       /\ UNCHANGED <<postInteraction, commentInteraction, postFaction,
                      postModel, commentModel, last, requests, interactionRow,
                      factionRow>>

RowInit ==
    /\ postInteraction = [k \in Users \X Posts |-> NoPostInteraction]
    /\ commentInteraction = [k \in Users \X CommentIds |-> NoCommentInteraction]
    /\ postFaction = [k \in Users \X Posts |-> "none"]
    /\ postModel = [p \in Posts |-> NewPost]
    /\ commentModel = <<NewComment(NumUsers, 1, "neutral")>>
    /\ score = [u \in Users |-> One]
    /\ last = NoRequest
    /\ requests = 0
    /\ NoSessions

Step(p) ==
    \/ Load(p)
    \/ Lookup(p)
    \/ CommitVote(p)
    \/ CommitJoin(p)
    \/ CommitChoose(p)
    \/ Rescore(p)

\* one request at a time
SerialNext ==
    \/ \E p \in Sessions, r \in StepRequests : BeginAlone(p, r)
    \/ \E p \in Sessions : Step(p)

SerialSpec == RowInit /\ [][SerialNext]_vars

\* up to NumSessions requests in progress at once
InterleavedNext ==
    \/ \E p \in Sessions, r \in StepRequests : Begin(p, r)
    \/ \E p \in Sessions : Step(p)

InterleavedSpec == RowInit /\ [][InterleavedNext]_vars

\* ================================================================== claims
\* the request handled last, read back from the stores
LastPair == <<last.user, last.target>>
OnPost == last.op = "post_interaction"
OnComment == last.op = "comment_interaction"
Vote == (OnPost \/ OnComment) /\ last.status = "ok"
                              /\ last.action \in {"like", "dislike"}
NowInteraction ==
    IF OnComment THEN commentInteraction[LastPair] ELSE postInteraction[LastPair]
NowCounts ==
    IF OnComment THEN commentModel[last.target] ELSE postModel[last.target]
Flag(interaction, action) ==
    IF action = "like" THEN interaction.liked ELSE interaction.disliked
Count(counts, action) ==
    IF action = "like" THEN counts.like_count ELSE counts.dislike_count
AtLeastOne(x) == IsNum(x) /\ x.n >= x.d

\* C1: no UserPostInteraction row and no UserCommentInteraction row has liked
\* and disliked both true, in any state reachable by atomically applied
\* requests.
MutualExclusion ==
    /\ \A k \in Users \X Posts :
          ~(postInteraction[k].liked /\ postInteraction[k].disliked)
    /\ \A k \in Users \X CommentIds :
          ~(commentInteraction[k].liked /\ commentInteraction[k].disliked)

\* C1 witness: a like has just been applied to a row that was disliked
LikeOverDislike ==
    /\ OnPost /\ last.status = "ok" /\ last.action = "like"
    /\ last.found.interaction.disliked
    /\ postInteraction[LastPair].liked

\* C2: every post's like_count, dislike_count and favorite_count, and every
\* comment's like_count and dislike_count, equal the number of interaction
\* rows of that target with the flag true; so no count is negative.
CountsMatchRecords ==
    /\ \A p \in Posts :
          /\ postModel[p].like_count =
                Cardinality({u \in Users : postInteraction[<<u, p>>].liked})
          /\ postModel[p].dislike_count =
                Cardinality({u \in Users : postInteraction[<<u, p>>].disliked})
          /\ postModel[p].favorite_count =
                Cardinality({u \in Users : postInteraction[<<u, p>>].favorited})
          /\ postModel[p].like_count >= 0
          /\ postModel[p].dislike_count >= 0
          /\ postModel[p].favorite_count >= 0
    /\ \A c \in 1 .. Len(commentModel) :
          /\ commentModel[c].like_count =
                Cardinality({u \in Users : commentInteraction[<<u, c>>].liked})
          /\ commentModel[c].dislike_count =
                Cardinality({u \in Users : commentInteraction[<<u, c>>].disliked})
          /\ commentModel[c].like_count >= 0
          /\ commentModel[c].dislike_count >= 0

\* C2 witness: a post carries a like, a dislike and a favorite at once
AllCountsPositive ==
    \E p \in Posts : /\ postModel[p].like_count > 0
                     /\ postModel[p].dislike_count > 0
                     /\ postModel[p].favorite_count > 0

\* C3: every stored score is at least 1.0 and so is every value update_score
\* returns.
ScoreFloor ==
    /\ \A u \in Users : AtLeastOne(score[u])
    /\ last.rescored # 0 => AtLeastOne(last.result)

\* C3 witness: update_score has run for a user whose sum lies below 1.0
FloorApplied ==
    /\ last.rescored # 0
    /\ RLess(RawScore(last.rescored, postInteraction, commentInteraction,
                      commentModel, score), One)

\* C4: update_score called twice in a row on the same user, nothing changed
\* in between, returns the same value both times.
RecomputeDeterministic ==
    (last.op = "update_score" /\ last.run >= 2) => last.result = last.prevResult

\* C5: like (dislike) applied twice in a row by the same actor to a target
\* whose flag was false: the first reports active, the second reports not
\* active and leaves the flag false and the count as it was before the two.
ToggleRoundTrip ==
    (Vote /\ ~Flag(last.start.interaction, last.action)) =>
        /\ last.run = 1 => last.active
        /\ last.run = 2 =>
              /\ ~last.active
              /\ ~Flag(NowInteraction, last.action)
              /\ Count(NowCounts, last.action) =
                    Count(last.start.counts, last.action)

\* C5 witness: the second of two likes in a row on a post not liked before
LikedTwiceInARow ==
    /\ OnPost /\ last.status = "ok" /\ last.action = "like" /\ last.run = 2
    /\ ~last.start.interaction.liked

\* C6: dislike applied to a liked row leaves liked false, disliked true,
\* like_count one lower and dislike_count one higher; like applied to a
\* disliked row does the mirror image.
OpposingActionWins ==
    /\ (Vote /\ last.action = "dislike" /\ last.found.interaction.liked) =>
          /\ ~NowInteraction.liked /\ NowInteraction.disliked
          /\ NowCounts.like_count = last.found.counts.like_count - 1
          /\ NowCounts.dislike_count = last.found.counts.dislike_count + 1
    /\ (Vote /\ last.action = "like" /\ last.found.interaction.disliked) =>
          /\ NowInteraction.liked /\ ~NowInteraction.disliked
          /\ NowCounts.dislike_count = last.found.counts.dislike_count - 1
          /\ NowCounts.like_count = last.found.counts.like_count + 1

\* C6 witness: a dislike has just been applied to a liked comment
DislikeOverLike ==
    /\ OnComment /\ last.status = "ok" /\ last.action = "dislike"
    /\ last.found.interaction.liked

\* C7: choose_faction for a pair that has a UserPostFaction row is rejected
\* whatever the faction and changes nothing; a choose_faction request never
\* changes or removes a row that exists.
ChooseOnce ==
    last.op = "choose_faction" =>
        /\ last.found.row # "none" =>
              /\ last.status # "ok"
              /\ last.faction \in {"pro", "anti"} => last.status = "already_chosen"
              /\ ~last.changed
        /\ \A k \in Users \X Posts :
              last.before.postFaction[k] # "none" =>
                  postFaction[k] = last.before.postFaction[k]

\* C7 witness: the other faction was requested for a pair that has a row
OtherFactionRefused ==
    /\ last.op = "choose_faction" /\ last.status = "already_chosen"
    /\ last.found.row # last.faction

\* C8: a comment tagged pro or anti is rejected, and none is stored, unless
\* the author has the UserPostFaction row of that post with that faction; a
\* neutral comment (with text) is stored whatever rows exist.
FactionGate ==
    last.op = "post" =>
        /\ (last.faction \in {"pro", "anti"} /\ last.found.row # last.faction) =>
              /\ last.status # "ok"
              /\ commentModel = last.before.commentModel
        /\ (last.faction = "neutral" /\ last.action # "") =>
              /\ last.status = "ok"
              /\ commentModel =
                    Append(last.before.commentModel,
                           [author_id |-> last.user, post_id |-> last.target,
                            faction |-> "neutral", like_count |-> 0,
                            dislike_count |-> 0])

\* C8 witness: an anti comment of a member of the pro faction was rejected
OppositeRowRefused ==
    /\ last.op = "post" /\ last.faction = "anti" /\ last.action # ""
    /\ last.found.row = "pro" /\ last.status = "not_in_faction"

\* C9: join_faction with faction f: a row with f is deleted (active false), a
\* row with the other faction becomes f (active true), no row: one is created
\* with f (active true); twice in a row from no row ends with no row.
TogglePath ==
    (OnPost /\ last.action = "join_faction" /\ last.faction \in {"pro", "anti"}) =>
        /\ last.status = "ok"
        /\ last.found.row = last.faction =>
              postFaction[LastPair] = "none" /\ ~last.active
        /\ last.found.row # last.faction =>
              postFaction[LastPair] = last.faction /\ last.active
        /\ (last.run = 2 /\ last.start.row = "none") =>
              postFaction[LastPair] = "none"

\* C9 witness: the second of two identical join_faction requests, from no row
JoinedTwiceInARow ==
    /\ OnPost /\ last.action = "join_faction" /\ last.status = "ok"
    /\ last.run = 2 /\ last.start.row = "none"

\* C10: a post interaction with an unknown action fails as an invalid action,
\* a join_faction or choose_faction with a faction other than pro and anti
\* fails as an invalid faction, and neither changes any row, count or score.
InvalidRejected ==
    /\ (OnPost /\ last.action \notin {"like", "dislike", "favorite", "join_faction"}) =>
          /\ last.status = "invalid_action"
          /\ ~last.changed /\ Tables = last.before
    /\ (/\ \/ OnPost /\ last.action = "join_faction"
           \/ last.op = "choose_faction"
        /\ last.faction \notin {"pro", "anti"}) =>
          /\ last.status = "invalid_faction"
          /\ ~last.changed /\ Tables = last.before

\* C10 witness: join_faction with an invalid faction on a pair without a row
InvalidFactionOnNewPair ==
    /\ OnPost /\ last.action = "join_faction" /\ last.status = "invalid_faction"
    /\ ~last.found.interaction.present

\* ---------------------------------------------------------------- C11 - C20
\* the author of the target of the request handled last
LastAuthor ==
    IF OnComment THEN commentModel[last.target].author_id
    ELSE PostAuthor(last.target)

\* the request handled last changed the liked or the disliked flag of its row
FlagsChanged ==
    \/ NowInteraction.liked # last.found.interaction.liked
    \/ NowInteraction.disliked # last.found.interaction.disliked

RECURSIVE SumOver(_, _)
SumOver(f, S) ==
    IF S = {} THEN Zero
    ELSE LET k == CHOOSE k \in S : TRUE
         IN RAdd(f[k], SumOver(f, S \ {k}))

\* The formula of C11 for the score of author, read off the stores as they
\* are, with the scores sc: v = max(voter.score, 1.0), u = max(sc[author], 1.0).
FormulaScore(author, sc) ==
    LET u == RMax(sc[author], One)
        v(voter) == RMax(sc[voter], One)
        share(voter, base, damp) ==
            RDiv(v(voter),
                 RMul(RInt(base), RAdd(One, RDiv(u, RInt(damp)))))
        onPosts ==
            [k \in Users \X Posts |->
                IF ~postInteraction[k].present \/ PostAuthor(k[2]) # author
                THEN Zero
                ELSE RSub(IF postInteraction[k].liked
                          THEN share(k[1], 500, 10) ELSE Zero,
                          IF postInteraction[k].disliked
                          THEN share(k[1], 500, 20) ELSE Zero)]
        onComments ==
            [k \in Users \X (1 .. Len(commentModel)) |->
                IF ~commentInteraction[k].present
                   \/ commentModel[k[2]].author_id # author
                THEN Zero
                ELSE RSub(IF commentInteraction[k].liked
                          THEN share(k[1], 100, 5) ELSE Zero,
                          IF commentInteraction[k].disliked
                          THEN share(k[1], 100, 10) ELSE Zero)]
    IN RMax(RAdd(One, RAdd(SumOver(onPosts, DOMAIN onPosts),
                           SumOver(onComments, DOMAIN onComments))),
            One)

\* the votes user has received on its posts and comments
ReceivedPostVotes(user) ==
    {k \in Users \X Posts : postInteraction[k].present /\ PostAuthor(k[2]) = user}
ReceivedCommentVotes(user) ==
    {k \in Users \X (1 .. Len(commentModel)) :
        commentInteraction[k].present /\ commentModel[k[2]].author_id = user}

OnlyDislikesGiveOne ==
    (/\ last.op = "update_score"
     /\ \A k \in ReceivedPostVotes(last.user) : ~postInteraction[k].liked
     /\ \A k \in ReceivedCommentVotes(last.user) : ~commentInteraction[k].liked)
    => (last.result = One /\ score[last.user] = One)

\* C12 witness: update_score has run for a user with score above 1.0 whose
\* content carries dislikes only, one of them from a voter with score above 1.0
DislikedOnlyRecomputed ==
    /\ last.op = "update_score"
    /\ RLess(One, last.scores[last.user])
    /\ \A k \in ReceivedPostVotes(last.user) : ~postInteraction[k].liked
    /\ \A k \in ReceivedCommentVotes(last.user) : ~commentInteraction[k].liked
    /\ \E k \in ReceivedPostVotes(last.user) :
          postInteraction[k].disliked /\ RLess(One, last.scores[k[1]])
    /\ \E k \in ReceivedCommentVotes(last.user) : commentInteraction[k].disliked

\* C13: a favorite and a join_faction request recompute no score and leave
\* every stored score as it was; a request recomputes a score only when it is
\* a like or dislike that changed the liked or disliked flag of its row, and a
\* request that recomputes none leaves every score as it was.
QualifyingOnly ==
    /\ (OnPost /\ last.action \in {"favorite", "join_faction"}) =>
          (last.rescored = 0 /\ score = last.scores)
    /\ ((OnPost \/ OnComment) /\ last.rescored # 0) =>
          (last.action \in {"like", "dislike"} /\ FlagsChanged)
    /\ (last.op \notin {"none", "update_score"} /\ last.rescored = 0) =>
          score = last.scores

\* C13 witness: a favorite was applied to a post whose author's stored score
\* a recomputation would have changed
FavoriteWouldRescore ==
    /\ OnPost /\ last.action = "favorite" /\ last.status = "ok"
    /\ update_score(LastAuthor, postInteraction, commentInteraction,
                    commentModel, score) # score[LastAuthor]

\* C14: a like or dislike that changes the liked or disliked flag recomputes,
\* within the request, the score of the target's author, and the value is
\* update_score of the stores as they are after the change.
ChangeRescoresAuthor ==
    (Vote /\ FlagsChanged) =>
        /\ last.rescored = LastAuthor
        /\ last.result = update_score(LastAuthor, postInteraction,
                                      commentInteraction, commentModel,
                                      last.scores)
        /\ last.result = FormulaScore(LastAuthor, last.scores)
        /\ score[LastAuthor] = last.result

\* C14 witness: a like on a comment was cleared and the author's score, which
\* was above 1.0, was recomputed without it
UnlikeRecomputed ==
    /\ OnComment /\ Vote /\ last.action = "like"
    /\ last.found.interaction.liked
    /\ RLess(One, last.scores[LastAuthor])
    /\ last.rescored = LastAuthor

\* C15: the active a like, dislike or favorite request reports is the flag of
\* that action in the actor's row after the request, and the count it reports
\* is the target's counter of that action after the request.
ResponseMatchesStore ==
    (/\ OnPost \/ OnComment
     /\ last.status = "ok"
     /\ last.action \in {"like", "dislike", "favorite"}) =>
        /\ last.active = (CASE last.action = "like" -> NowInteraction.liked
                            [] last.action = "dislike" -> NowInteraction.disliked
                            [] OTHER -> NowInteraction.favorited)
        /\ last.count = (CASE last.action = "like" -> NowCounts.like_count
                           [] last.action = "dislike" -> NowCounts.dislike_count
                           [] OTHER -> NowCounts.favorite_count)

\* C15 witness: a dislike was set on a post whose like_count differs from its
\* dislike_count
DislikeReported ==
    /\ OnPost /\ last.status = "ok" /\ last.action = "dislike" /\ last.active
    /\ postModel[last.target].like_count # postModel[last.target].dislike_count

\* C16: with the requests handled one at a time, there is at most one
\* interaction row per (user, post) and per (user, comment) after every step;
\* no step removes a row or changes the pair of a row; and a row is created
\* only by the commit of a request of that user on that target, when the pair
\* had no row.
RowPair(r) == <<r.kind, r.user_id, r.target>>

OneRowPerPair ==
    \A r1, r2 \in interactionRow : RowPair(r1) = RowPair(r2) => r1 = r2

RecordLifecycle ==
    [][/\ OneRowPerPair'
       /\ \A r \in interactionRow :
             \E x \in interactionRow' : x.id = r.id /\ RowPair(x) = RowPair(r)
       /\ \A x \in interactionRow' :
             (\A r \in interactionRow : r.id # x.id) =>
                 /\ \A r \in interactionRow : RowPair(r) # RowPair(x)
                 /\ \E p \in Sessions :
                       /\ session[p].pc = "commit" /\ session'[p].pc # "commit"
                       /\ RowPair(x) = <<Kind(session[p]), session[p].user,
                                         session[p].target>>]_vars

\* C16 witness: a second vote of a user on a comment has been committed to the
\* row the first one created
SecondActionInPlace ==
    \E p \in Sessions :
        /\ session[p].pc = "rescore" /\ session[p].op = "comment_interaction"
        /\ session[p].seen # NoInteractionRow
        /\ \E x \in interactionRow :
              x.id = session[p].seen.id /\ x # session[p].seen
        /\ Cardinality(FindInteraction("comment", session[p].user,
                                       session[p].target)) = 1

\* C17: with choose_faction and join_faction requests in progress at once,
\* there is at most one UserPostFaction row per (user, post) in every state,
\* and every row has faction pro or anti.
OneFactionRow ==
    /\ \A r1, r2 \in factionRow :
          (r1.user_id = r2.user_id /\ r1.post_id = r2.post_id) => r1 = r2
    /\ \A r \in factionRow : r.faction \in {"pro", "anti"}

\* C17 witness: a choose_faction and a join_faction request of the same user
\* for the same post, the only two so far, have both found no row; the
\* join_faction has inserted its rows and the choose_faction is about to insert
InsertAfterInsert ==
    \E p, q \in Sessions :
        /\ requests = 2
        /\ session[p].pc = "commit" /\ session[p].op = "choose_faction"
        /\ session[p].seenFaction = NoFactionRow
        /\ session[q].pc = "idle"
        /\ FindInteraction("post", session[p].user, session[p].target) # {}
        /\ \E r \in FindFaction(session[p].user, session[p].target) :
              r.faction # session[p].faction

\* C18: no committed state has the flag and the count of a like or dislike
\* request written while the recomputation of the author's score for it is
\* still to come.
RescorePending(p) ==
    /\ session[p].pc = "rescore"
    /\ \E x \in interactionRow :
          /\ x.id = session[p].row
          /\ \/ x.liked # session[p].was_liked
             \/ x.disliked # session[p].was_disliked

SingleTransaction == \A p \in Sessions : ~RescorePending(p)

\* C19: two request sequences from the same initial state that end with the
\* same rows in every table end with the same stored score of every user:
\* whenever the tables are again as the observer noted them, so are the scores.
ScoreDerivable ==
    (last.noted # NoNote /\ Tables = last.noted.tables) =>
        score = last.noted.score

\* C20: every stored comment has faction pro, anti or neutral.
CommentFactionValid ==
    \A c \in 1 .. Len(commentModel) :
        commentModel[c].faction \in {"pro", "anti", "neutral"}

\* ---------------------------------------------------------------- C21 - C30
\* every row but the one of (user, target) of the request handled last, every
\* count but the target's, and every faction row are as the request found them
OthersUntouched ==
    /\ \A k \in Users \X Posts :
          (OnComment \/ k # LastPair) =>
              postInteraction[k] = last.before.postInteraction[k]
    /\ \A k \in Users \X CommentIds :
          (OnPost \/ k # LastPair) =>
              commentInteraction[k] = last.before.commentInteraction[k]
    /\ \A p \in Posts :
          (OnComment \/ p # last.target) => postModel[p] = last.before.postModel[p]
    /\ \A c \in 1 .. Len(commentModel) :
          (OnPost \/ c # last.target) =>
              commentModel[c] = last.before.commentModel[c]
    /\ Len(commentModel) = Len(last.before.commentModel)
    /\ postFaction = last.before.postFaction

\* C21: a favorite request flips the actor's favorited flag, moves the post's
\* favorite_count by one in the same direction, and leaves liked, disliked,
\* like_count, dislike_count, every other row and every score as they were; a
\* like or dislike request leaves favorited and favorite_count as they were.
FavoriteIndependence ==
    /\ (OnPost /\ last.status = "ok" /\ last.action = "favorite") =>
          /\ NowInteraction.favorited = ~last.found.interaction.favorited
          /\ NowCounts.favorite_count =
                last.found.counts.favorite_count
                    + (IF NowInteraction.favorited THEN 1 ELSE -1)
          /\ NowInteraction.liked = last.found.interaction.liked
          /\ NowInteraction.disliked = last.found.interaction.disliked
          /\ NowCounts.like_count = last.found.counts.like_count
          /\ NowCounts.dislike_count = last.found.counts.dislike_count
          /\ OthersUntouched
          /\ score = last.scores
    /\ (OnPost /\ last.status = "ok" /\ last.action \in {"like", "dislike"}) =>
          /\ NowInteraction.favorited = last.found.interaction.favorited
          /\ NowCounts.favorite_count = last.found.counts.favorite_count

\* C21 witness: a favorite was taken back from a post the actor dislikes and
\* somebody likes
FavoriteOffDisliked ==
    /\ OnPost /\ last.status = "ok" /\ last.action = "favorite"
    /\ last.found.interaction.favorited /\ last.found.interaction.disliked
    /\ postModel[last.target].like_count > 0

\* C22: a call of update_score for a user leaves the stored score of every
\* other user, and every table, as they were; a like or dislike request
\* recomputes the score of the target's author or of nobody, and leaves the
\* stored score of every other user as it was.
NoCascading ==
    /\ last.op = "update_score" =>
          /\ \A v \in Users \ {last.user} : score[v] = last.scores[v]
          /\ Tables = last.before
    /\ Vote =>
          /\ last.rescored \in {0, LastAuthor}
          /\ \A v \in Users \ {LastAuthor} : score[v] = last.scores[v]

\* C22 witness: update_score has run for a user one of whose voters has a
\* stored score that a recomputation of the voter would change
VoterLeftStale ==
    /\ last.op = "update_score"
    /\ \E k \in ReceivedPostVotes(last.user) \cup ReceivedCommentVotes(last.user) :
          /\ k[1] # last.user
          /\ update_score(k[1], postInteraction, commentInteraction,
                          commentModel, score) # score[k[1]]

\* what one like adds to and one dislike subtracts from the score of self in
\* update_score, for a vote of voter on a post or on a comment of self
LikeAdds(kind, voter, self, sc) ==
    IF kind = "post"
    THEN PostTerm([NewPostInteraction EXCEPT !.liked = TRUE], voter, self, sc)
    ELSE CommentTerm([NewCommentInteraction EXCEPT !.liked = TRUE], voter, self, sc)

DislikeSubtracts(kind, voter, self, sc) ==
    IF kind = "post"
    THEN RNeg(PostTerm([NewPostInteraction EXCEPT !.disliked = TRUE],
                       voter, self, sc))
    ELSE RNeg(CommentTerm([NewCommentInteraction EXCEPT !.disliked = TRUE],
                          voter, self, sc))

\* the exact arithmetic of comparing x with y stays within ArithLimit
Comparable(x, y) == IsNum(x) /\ IsNum(y) /\ IsNum(RSub(y, x))

\* C23, as stated: in a call of update_score, for every voter, a dislike
\* subtracts less than a like of the same voter adds, on posts and on comments.
DislikeWeighsLess ==
    last.op = "update_score" =>
        \A voter \in Users, kind \in {"post", "comment"} :
            LET adds == LikeAdds(kind, voter, last.user, last.scores)
                subtracts == DislikeSubtracts(kind, voter, last.user, last.scores)
            IN Comparable(subtracts, adds) => RLess(subtracts, adds)

\* C23, amended: in a call of update_score, for every voter, a dislike
\* subtracts more than a like of the same voter adds, on posts and on
\* comments.  (Stated where the exact arithmetic stays within ArithLimit.)
DislikeWeighsMore ==
    last.op = "update_score" =>
        \A voter \in Users, kind \in {"post", "comment"} :
            LET adds == LikeAdds(kind, voter, last.user, last.scores)
                subtracts == DislikeSubtracts(kind, voter, last.user, last.scores)
            IN Comparable(adds, subtracts) => RLess(adds, subtracts)

\* C23 witness: update_score has run for an author with score above 1.0 whose
\* only votes are a like and a dislike on a post from voters of equal score,
\* and the dislike outweighed the like: the result is the floor
DislikeOutweighedLike ==
    /\ last.op = "update_score"
    /\ RLess(One, last.scores[last.user])
    /\ \E k1, k2 \in ReceivedPostVotes(last.user) :
          /\ postInteraction[k1].liked /\ postInteraction[k2].disliked
          /\ last.scores[k1[1]] = last.scores[k2[1]]
    /\ \A k \in ReceivedCommentVotes(last.user) :
          ~commentInteraction[k].liked /\ ~commentInteraction[k].disliked
    /\ last.result = One

\* no request is in progress
AllIdle == \A p \in Sessions : session[p].pc = "idle"

\* the counts of every post and comment are the numbers of its interaction
\* rows with the flag true, and none is negative
RowCountsMatch ==
    /\ \A t \in Posts :
          LET rows == {r \in interactionRow : r.kind = "post" /\ r.target = t}
          IN /\ postModel[t].like_count = Cardinality({r \in rows : r.liked})
             /\ postModel[t].dislike_count = Cardinality({r \in rows : r.disliked})
             /\ postModel[t].favorite_count =
                   Cardinality({r \in rows : r.favorited})
             /\ postModel[t].like_count >= 0
             /\ postModel[t].dislike_count >= 0
             /\ postModel[t].favorite_count >= 0
    /\ \A c \in 1 .. Len(commentModel) :
          LET rows == {r \in interactionRow : r.kind = "comment" /\ r.target = c}
          IN /\ commentModel[c].like_count = Cardinality({r \in rows : r.liked})
             /\ commentModel[c].dislike_count =
                   Cardinality({r \in rows : r.disliked})
             /\ commentModel[c].like_count >= 0
             /\ commentModel[c].dislike_count >= 0

\* C24: when the only two requests so far, of different users on the same
\* target, have both committed, however their steps interleaved, the target's
\* counts equal the numbers of rows with the flag true and none is negative.
NoLostCountUpdate ==
    (/\ AllIdle
     /\ requests = 2
     /\ \E r1, r2 \in interactionRow :
           /\ r1.user_id # r2.user_id
           /\ r1.kind = r2.kind /\ r1.target = r2.target)
    => RowCountsMatch

\* C25: when no request is in progress, however the steps of the requests
\* interleaved, there is one interaction row per (user, post) and per (user,
\* comment) that has any.
OneRowAfterRace == AllIdle => OneRowPerPair

\* C26: when no request is in progress, however the steps of the requests
\* interleaved, no interaction row has liked and disliked both true.
ExclusionAfterRace ==
    AllIdle => \A r \in interactionRow : ~(r.liked /\ r.disliked)

\* C27: a comment interaction with an action other than like and dislike ends
\* in a reported error, and leaves every row, count and score as it was.
UnknownCommentActionRejected ==
    (OnComment /\ last.action \notin {"like", "dislike"}) =>
        /\ last.status \notin {"ok", "unhandled_error"}
        /\ ~last.changed
        /\ Tables = last.before
        /\ score = last.scores

\* C28: after every request, handled as one atomic step from all scores 1.0,
\* every user none of whose posts and comments carries a liked flag has the
\* stored score 1.0; so a like followed by its un-like leaves the author at 1.0.
NoLikesScoreOne ==
    /\ \A u \in Users :
          (/\ \A k \in ReceivedPostVotes(u) : ~postInteraction[k].liked
           /\ \A k \in ReceivedCommentVotes(u) : ~commentInteraction[k].liked)
          => score[u] = One
    /\ (/\ Vote /\ last.action = "like" /\ last.run = 2
        /\ ~last.start.interaction.liked
        /\ \A k \in ReceivedPostVotes(LastAuthor) : ~postInteraction[k].liked
        /\ \A k \in ReceivedCommentVotes(LastAuthor) :
              ~commentInteraction[k].liked)
       => (last.rescored = LastAuthor /\ score[LastAuthor] = One)

\* C28 witness: the un-like of the only like on an author's content has
\* brought the author's score from above 1.0 back to 1.0
UnlikeBackToOne ==
    /\ Vote /\ last.action = "like" /\ last.run = 2
    /\ ~last.start.interaction.liked
    /\ RLess(One, last.scores[LastAuthor])
    /\ last.rescored = LastAuthor
    /\ score[LastAuthor] = One

\* C29: init_user_scores leaves the same scores whatever the order in which
\* it visits the users, and a second run in a row, nothing having changed in
\* between, leaves every stored score as it was.  (The orders are compared
\* where the exact arithmetic stays within ArithLimit.)
InitOrderFreeAndStable ==
    last.op = "init_user_scores" =>
        /\ \A users \in Orders :
              LET scores == init_user_scores(users, last.scores)
              IN (\A u \in Users : IsNum(scores[u])) => scores = score
        /\ last.run >= 2 => score = last.scores

\* C30: with choose_faction and comment submission the only requests, the
\* author of every stored comment tagged pro or anti holds the UserPostFaction
\* row of the comment's post with the comment's faction.
TaggedCommentHasRow ==
    \A c \in 1 .. Len(commentModel) :
        commentModel[c].faction \in {"pro", "anti"} =>
            postFaction[<<commentModel[c].author_id, commentModel[c].post_id>>]
                = commentModel[c].faction

\* C30 witness: the author of a stored pro or anti comment has asked for the
\* other faction on that post and was refused
SwitchAfterCommentRefused ==
    /\ last.op = "choose_faction" /\ last.status = "already_chosen"
    /\ last.faction # last.found.row
    /\ \E c \in 1 .. Len(commentModel) :
          /\ commentModel[c].author_id = last.user
          /\ commentModel[c].post_id = last.target
          /\ commentModel[c].faction = last.found.row

====
